---- MODULE Spec2Model ----
(***************************************************************************)
(* A model of the rust-8 CHIP-8 interpreter: src/src/ram.rs (Ram),         *)
(* src/src/bus.rs (Bus), src/src/cpu.rs (Cpu) and src/src/chip8.rs (Chip8).*)
(* The driver owns one Chip8 and calls Chip8::load and Chip8::clock; a     *)
(* panic ends the run.                                                     *)
(***************************************************************************)
EXTENDS Integers, Sequences, FiniteSets, TLC

(***************************************************************************)
(* Program constants.                                                      *)
(***************************************************************************)
PROGRAM_START == 512

NUM_REGISTERS == 16

STACK_CAPACITY == 16

MEMORY_SIZE == 1024

(***************************************************************************)
(* Bounds of the model.                                                    *)
(***************************************************************************)
\* the deepest chain of nested calls among the loaded programs
MaxNest == 17

VARIABLES
    vx,               \* Cpu.vx: the 16 registers, V0 first (register i is vx[i + 1])
    pc,               \* Cpu.pc
    idx,              \* Cpu.idx (the index register I)
    stack,            \* Cpu.stack: Vec<u16> of return addresses
    mem,              \* Ram.mem, as the map of its nonzero bytes (Ram::new fills with 0)
    delay_timer,      \* Bus.delay_timer
    overflow_checks,  \* the build: TRUE when integer overflow checks are compiled in
    panic,            \* "none" while the run is alive, else the kind of panic that ended it
    last,             \* history: the most recent driver call and the state it started from
    prev,             \* history: kind, opcode and PC of the driver call before that
    calls             \* history: the calls not yet returned from (site and depth before)

vars == <<vx, pc, idx, stack, mem, delay_timer, overflow_checks, panic, last, prev, calls>>

(***************************************************************************)
(* u8 operators of Rust, computed on naturals.                             *)
(***************************************************************************)
RECURSIVE BitAnd(_, _)
BitAnd(a, b) ==
    IF a = 0 \/ b = 0 THEN 0
    ELSE (IF a % 2 = 1 /\ b % 2 = 1 THEN 1 ELSE 0) + 2 * BitAnd(a \div 2, b \div 2)

RECURSIVE BitOr(_, _)
BitOr(a, b) ==
    IF a = 0 THEN b
    ELSE IF b = 0 THEN a
    ELSE (IF a % 2 = 1 \/ b % 2 = 1 THEN 1 ELSE 0) + 2 * BitOr(a \div 2, b \div 2)

RECURSIVE BitXor(_, _)
BitXor(a, b) ==
    IF a = 0 THEN b
    ELSE IF b = 0 THEN a
    ELSE (IF a % 2 # b % 2 THEN 1 ELSE 0) + 2 * BitXor(a \div 2, b \div 2)

RECURSIVE Pow2(_)
Pow2(k) == IF k = 0 THEN 1 ELSE 2 * Pow2(k - 1)

\* u8 >> k for k < 8
Shr(a, k) == a \div Pow2(k)

\* u8 << k for k < 8: the bits shifted out are dropped
Shl8(a, k) == (a * Pow2(k)) % 256

\* `value as u8`
AsU8(v) == v % 256

\* u8::wrapping_add
WrappingAdd(a, b) == (a + b) % 256

\* u8 `a - b` in a build without overflow checks
WrappingSub(a, b) == (a - b + 256) % 256

(***************************************************************************)
(* Ram and Bus.                                                            *)
(***************************************************************************)
\* a bound check that lets the address MEMORY_SIZE through
InBounds_Inclusive(address) == address <= MEMORY_SIZE

\* Ram::read_byte / Bus::read_byte: indexing past the array panics
InBounds(address) == address < MEMORY_SIZE

\* Ram::new: every byte is 0
ZeroMem == [a \in {} |-> 0]

ReadByte(m, address) == IF address \in DOMAIN m THEN m[address] ELSE 0

(***************************************************************************)
(* Cpu.  A cpu value c is [vx, pc, idx, stack, panic].                     *)
(***************************************************************************)
\* self.vx[index as usize]
Reg(regs, index) == regs[index + 1]

read_reg(c, index) == Reg(c.vx, index)

load_reg(c, index, value) == [c EXCEPT !.vx[index + 1] = value]

Panicked(c, kind) == [c EXCEPT !.panic = kind]

AdvancePc(c, by) == [c EXCEPT !.pc = @ + by]

\* fetch: (hi << 8) | lo
FetchOpcode(m, at) == ReadByte(m, at) * 256 + ReadByte(m, at + 1)

OpClass(opcode) == opcode \div 4096

FieldNNN(opcode) == opcode % 4096

FieldNN(opcode) == opcode % 256

FieldN(opcode) == opcode % 16

FieldX(opcode) == (opcode \div 256) % 16

FieldY(opcode) == (opcode \div 16) % 16

(***************************************************************************)
(* Cpu::exec_instruction, one operator per arm of the match.  vxv and vyv  *)
(* are the values read from Vx and Vy before the match (cpu.rs 48-49).     *)
(***************************************************************************)
\* 00E0: the display is not cleared (the call is commented out)
Op00E0(c) == AdvancePc(c, 2)

\* a return that takes the oldest return address instead of the newest
Op00EE_Oldest(c) ==
    IF c.stack = <<>> THEN Panicked(c, "unwrap_none")
    ELSE [c EXCEPT !.pc = c.stack[1], !.stack = SubSeq(c.stack, 2, Len(c.stack))]

\* a return that falls back to address 0 on an empty stack instead of panicking
Op00EE_OrDefault(c) ==
    IF c.stack = <<>> THEN [c EXCEPT !.pc = 0]
    ELSE [c EXCEPT !.pc = c.stack[Len(c.stack)],
                   !.stack = SubSeq(c.stack, 1, Len(c.stack) - 1)]

\* 00EE: self.pc = self.stack.pop().unwrap()
Op00EE(c) ==
    IF c.stack = <<>> THEN Panicked(c, "unwrap_none")
    ELSE [c EXCEPT !.pc = c.stack[Len(c.stack)],
                   !.stack = SubSeq(c.stack, 1, Len(c.stack) - 1)]

\* a jump that keeps only the low byte of NNN
Op1NNN_LowByte(c, nnn) == [c EXCEPT !.pc = nnn % 256]

Op1NNN(c, nnn) == [c EXCEPT !.pc = nnn]

\* 2NNN: Vec::push grows the vector; no capacity check
Op2NNN(c, nnn) == [c EXCEPT !.stack = Append(@, c.pc + 2), !.pc = nnn]

\* a 3XNN that skips on inequality
Op3XNN_Inverted(c, vxv, nn) == IF nn # vxv THEN AdvancePc(c, 4) ELSE AdvancePc(c, 2)

Op3XNN(c, vxv, nn) == IF nn = vxv THEN AdvancePc(c, 4) ELSE AdvancePc(c, 2)

Op4XNN(c, vxv, nn) == IF nn # vxv THEN AdvancePc(c, 4) ELSE AdvancePc(c, 2)

Op5XY0(c, vxv, vyv) == IF vxv # vyv THEN AdvancePc(c, 4) ELSE AdvancePc(c, 2)

Op6XNN(c, x, nn) == AdvancePc(load_reg(c, x, nn), 2)

Op7XNN(c, x, vxv, nn) == AdvancePc(load_reg(c, x, WrappingAdd(vxv, nn)), 2)

Op8XY0(c, x, vyv) == load_reg(c, x, vyv)

Op8XY1(c, x, vxv, vyv) == load_reg(c, x, BitOr(vxv, vyv))

Op8XY2(c, x, vxv, vyv) == load_reg(c, x, BitAnd(vxv, vyv))

Op8XY3(c, x, vxv, vyv) == load_reg(c, x, BitXor(vxv, vyv))

\* an 8XY4 that tests the carry on the truncated sum
Op8XY4_NarrowSum(c, x, vxv, vyv) ==
    LET sum == AsU8(vxv + vyv)
    IN  load_reg(load_reg(c, x, sum), 15, IF sum > 255 THEN 1 ELSE 0)

Op8XY4(c, x, vxv, vyv) ==
    LET sum == vxv + vyv
    IN  load_reg(load_reg(c, x, AsU8(sum)), 15, IF sum > 255 THEN 1 ELSE 0)

\* 8XY5: `vx - vy` on u8 panics under overflow checks when vy > vx, else wraps
Op8XY5(c, x, vxv, vyv, checks) ==
    IF checks /\ vyv > vxv THEN Panicked(c, "overflow")
    ELSE load_reg(load_reg(c, x, WrappingSub(vxv, vyv)), 15, IF vyv > vxv THEN 1 ELSE 0)

\* an 8XY6 that takes the flag from the shifted value
Op8XY6_FlagAfterShift(c, x, vxv) ==
    load_reg(load_reg(c, 15, BitAnd(Shr(vxv, 1), 1)), x, Shr(vxv, 1))

Op8XY6(c, x, vxv) == load_reg(load_reg(c, 15, BitAnd(vxv, 1)), x, Shr(vxv, 1))

\* 8XY7: `vy - vx` on u8 panics under overflow checks when vx > vy, else wraps
Op8XY7(c, x, vxv, vyv, checks) ==
    IF checks /\ vxv > vyv THEN Panicked(c, "overflow")
    ELSE load_reg(load_reg(c, x, WrappingSub(vyv, vxv)), 15, IF vxv > vyv THEN 1 ELSE 0)

\* 8XYE: `(vx >> 8) >> 7` on u8: a shift by the full width panics under overflow
\* checks; without them the shift amount is masked to 8 % 8 = 0
Op8XYE(c, x, vxv, checks) ==
    IF checks THEN Panicked(c, "overflow")
    ELSE load_reg(load_reg(c, 15, Shr(Shr(vxv, 8 % 8), 7)), x, Shl8(vxv, 1))

\* the 0x8 arm: the inner match, then self.pc += 2
Op8XYN(c, x, n, vxv, vyv, checks) ==
    LET r == CASE n = 0 -> Op8XY0(c, x, vyv)
               [] n = 1 -> Op8XY1(c, x, vxv, vyv)
               [] n = 2 -> Op8XY2(c, x, vxv, vyv)
               [] n = 3 -> Op8XY3(c, x, vxv, vyv)
               [] n = 4 -> Op8XY4(c, x, vxv, vyv)
               [] n = 5 -> Op8XY5(c, x, vxv, vyv, checks)
               [] n = 6 -> Op8XY6(c, x, vxv)
               [] n = 7 -> Op8XY7(c, x, vxv, vyv, checks)
               [] n = 14 -> Op8XYE(c, x, vxv, checks)
               [] OTHER -> Panicked(c, "unrecognized")
    IN  IF r.panic = "none" THEN AdvancePc(r, 2) ELSE r

Op9XY0(c, vxv, vyv) == IF vxv # vyv THEN AdvancePc(c, 4) ELSE AdvancePc(c, 2)

\* an ANNN that leaves PC on itself
OpANNN_NoAdvance(c, nnn) == [c EXCEPT !.idx = nnn]

OpANNN(c, nnn) == AdvancePc([c EXCEPT !.idx = nnn], 2)

OpBNNN(c, nnn) == [c EXCEPT !.pc = read_reg(c, 0) + nnn]

\* CXNN: r is the value drawn by gen_range(0, 255); nn is not applied
OpCXNN(c, x, r) == AdvancePc(load_reg(c, x, r), 2)

\* gen_range(0, 255): the upper bound is exclusive
RandRange == 0..254

OpDXYN(c) == Panicked(c, "todo")

OpEXNN(c, nn) ==
    IF nn \in {149, 161} THEN Panicked(c, "todo") ELSE Panicked(c, "unrecognized")

OpFXNN(c, nn) ==
    IF nn \in {7, 21, 24, 30, 41, 51, 85, 101} THEN Panicked(c, "todo")
    ELSE Panicked(c, "unrecognized")

Op0NNN(c, nn) ==
    CASE nn = 224 -> Op00E0(c)
      [] nn = 238 -> Op00EE(c)
      [] OTHER -> Panicked(c, "unrecognized")

\* the dispatch on the top nibble, after the fetch and the two register reads
Dispatch(c, opcode, checks, r) ==
    LET nnn == FieldNNN(opcode)
        nn == FieldNN(opcode)
        n == FieldN(opcode)
        x == FieldX(opcode)
        y == FieldY(opcode)
        vxv == read_reg(c, x)
        vyv == read_reg(c, y)
        class == OpClass(opcode)
    IN  CASE class = 0 -> Op0NNN(c, nn)
          [] class = 1 -> Op1NNN(c, nnn)
          [] class = 2 -> Op2NNN(c, nnn)
          [] class = 3 -> Op3XNN(c, vxv, nn)
          [] class = 4 -> Op4XNN(c, vxv, nn)
          [] class = 5 -> Op5XY0(c, vxv, vyv)
          [] class = 6 -> Op6XNN(c, x, nn)
          [] class = 7 -> Op7XNN(c, x, vxv, nn)
          [] class = 8 -> Op8XYN(c, x, n, vxv, vyv, checks)
          [] class = 9 -> Op9XY0(c, vxv, vyv)
          [] class = 10 -> OpANNN(c, nnn)
          [] class = 11 -> OpBNNN(c, nnn)
          [] class = 12 -> OpCXNN(c, x, r)
          [] class = 13 -> OpDXYN(c)
          [] class = 14 -> OpEXNN(c, nn)
          [] OTHER -> OpFXNN(c, nn)

\* the whole of exec_instruction: the two reads of the fetch panic out of bounds
exec_instruction(c, m, checks, r) ==
    IF ~InBounds(c.pc) \/ ~InBounds(c.pc + 1) THEN Panicked(c, "index_out_of_bounds")
    ELSE Dispatch(c, FetchOpcode(m, c.pc), checks, r)

\* the values the random source can matter for: only CXNN draws
Draws(m, at) ==
    IF InBounds(at) /\ InBounds(at + 1) /\ OpClass(FetchOpcode(m, at)) = 12
    THEN RandRange ELSE {0}

(***************************************************************************)
(* Chip8.                                                                  *)
(***************************************************************************)
\* Chip8::load: bytes are stored one by one from PROGRAM_START; the store that
\* leaves the array panics, after the earlier ones were made
Fits(buffer) ==
    IF PROGRAM_START + Len(buffer) <= MEMORY_SIZE THEN Len(buffer)
    ELSE MEMORY_SIZE - PROGRAM_START

\* the stores Chip8::load makes: byte i of the buffer (from 0) goes to
\* PROGRAM_START + i; they hit distinct addresses, so the map after the loop is
LoadedMem(m, buffer) ==
    LET written == PROGRAM_START..(PROGRAM_START + Fits(buffer) - 1)
        byte(a) == IF a \in written THEN buffer[a - PROGRAM_START + 1] ELSE ReadByte(m, a)
    IN  [a \in {d \in DOMAIN m \cup written : byte(d) # 0} |-> byte(a)]

Cpu == [vx |-> vx, pc |-> pc, idx |-> idx, stack |-> stack, panic |-> panic]

\* the addresses whose byte differs between two memories
ChangedBytes(m, n) == {a \in DOMAIN m \cup DOMAIN n : ReadByte(m, a) # ReadByte(n, a)}

\* what the history keeps of a driver call: its kind, the opcode fetched (clock),
\* the buffer passed (load), the processor state it started from, whether it left
\* memory as it was and the addresses whose byte it changed
Snapshot(kind, opcode, buffer) ==
    [kind |-> kind, opcode |-> opcode, buffer |-> buffer, pc |-> pc, vx |-> vx,
     idx |-> idx, stack |-> stack, calls |-> calls, memSame |-> (mem' = mem),
     changed |-> ChangedBytes(mem, mem')]

OpcodeAtPc == IF InBounds(pc) /\ InBounds(pc + 1) THEN FetchOpcode(mem, pc) ELSE 0

Load(buffer) ==
    /\ panic = "none"
    /\ mem' = LoadedMem(mem, buffer)
    /\ panic' = IF Fits(buffer) < Len(buffer) THEN "index_out_of_bounds" ELSE "none"
    /\ last' = Snapshot("load", 0, buffer)
    /\ prev' = [kind |-> last.kind, opcode |-> last.opcode, pc |-> last.pc]
    /\ UNCHANGED <<vx, pc, idx, stack, delay_timer, overflow_checks, calls>>

\* Chip8::clock: one exec_instruction
Clock ==
    /\ panic = "none"
    /\ UNCHANGED <<mem, delay_timer, overflow_checks>>
    /\ \E r \in Draws(mem, pc) :
          LET c == exec_instruction(Cpu, mem, overflow_checks, r)
              opcode == OpcodeAtPc
              done == c.panic = "none" /\ InBounds(pc) /\ InBounds(pc + 1)
          IN  /\ vx' = c.vx
              /\ pc' = c.pc
              /\ idx' = c.idx
              /\ stack' = c.stack
              /\ panic' = c.panic
              /\ calls' = IF done /\ OpClass(opcode) = 2
                              THEN Append(calls, [site |-> pc, depth |-> Len(stack)])
                          ELSE IF done /\ OpClass(opcode) = 0 /\ FieldNN(opcode) = 238
                                       /\ calls # <<>>
                              THEN SubSeq(calls, 1, Len(calls) - 1)
                          ELSE calls
              /\ last' = Snapshot("clock", opcode, <<>>)
    /\ prev' = [kind |-> last.kind, opcode |-> last.opcode, pc |-> last.pc]

\* Chip8::new: Bus::new, Ram::new, Cpu::new
Init ==
    /\ vx = [i \in 1..NUM_REGISTERS |-> 0]
    /\ pc = PROGRAM_START
    /\ idx = 0
    /\ stack = <<>>
    /\ mem = ZeroMem
    /\ delay_timer = 0
    /\ overflow_checks \in BOOLEAN
    /\ panic = "none"
    /\ calls = <<>>
    /\ last = [kind |-> "new", opcode |-> 0, buffer |-> <<>>, pc |-> PROGRAM_START,
               vx |-> [i \in 1..NUM_REGISTERS |-> 0], idx |-> 0, stack |-> <<>>,
               calls |-> <<>>, memSame |-> TRUE, changed |-> {}]
    /\ prev = [kind |-> "new", opcode |-> 0, pc |-> PROGRAM_START]

(***************************************************************************)
(* The programs the driver loads.                                          *)
(***************************************************************************)
\* the opcode with nibbles a b c d
Opc(a, b, c, d) == ((a * 16 + b) * 16 + c) * 16 + d

\* the two bytes of an opcode, high byte first
Bytes(opcode) == <<opcode \div 256, opcode % 256>>

RECURSIVE Image(_)
Image(ops) == IF ops = <<>> THEN <<>> ELSE Bytes(Head(ops)) \o Image(Tail(ops))

\* registers and byte values the loaded opcodes name
Regs == {0, 10, 15}

Vals == {0, 1, 60, 127, 128, 179, 255}

\* 6XNN with NN = v
SetReg(x, v) == Opc(6, x, v \div 16, v % 16)

Return == Opc(0, 0, 14, 14)

\* Vx := a, Vy := b, then one 8XYN
AluPrograms ==
    {Image(<<SetReg(x, a), SetReg(y, b), Opc(8, x, y, n)>>) :
        x \in Regs, y \in Regs, a \in Vals, b \in Vals, n \in (0..7) \cup {14}}

\* Vx := a, Vy := b, then 5XY0 or 9XY0; Vx := a, then 3XNN or 4XNN
SkipPrograms ==
    {Image(<<SetReg(x, a), SetReg(y, b), Opc(k, x, y, 0)>>) :
        x \in Regs, y \in Regs, a \in Vals, b \in Vals, k \in {5, 9}}
    \cup
    {Image(<<SetReg(x, a), Opc(k, x, v \div 16, v % 16)>>) :
        x \in Regs, a \in Vals, v \in Vals, k \in {3, 4}}

\* k nested calls, the i-th at PROGRAM_START + 4(i-1) calling the next site, each
\* site followed by the 00EE its callee returns to; the last callee is a 00EE
RECURSIVE NestedOps(_, _)
NestedOps(i, k) ==
    IF i > k THEN <<Return>>
    ELSE LET target == PROGRAM_START + 4 * i
         IN  <<Opc(2, target \div 256, (target \div 16) % 16, target % 16), Return>>
             \o NestedOps(i + 1, k)

NestedCalls(k) == Image(NestedOps(1, k))

CallPrograms == {NestedCalls(k) : k \in 0..MaxNest}

\* the opcode with class k and NNN = nnn
WithNNN(k, nnn) == k * 4096 + nnn

\* Vx := a, then a shift of Vx or 7XNN
UnaryPrograms ==
    {Image(<<SetReg(x, a), Opc(8, x, 0, n)>>) : x \in Regs, a \in Vals, n \in {6, 14}}
    \cup
    {Image(<<SetReg(x, a), Opc(7, x, v \div 16, v % 16)>>) : x \in Regs, a \in Vals, v \in Vals}

\* words that are no row of the instruction table: 0000, 01E0, 00E1, 5001, 9001,
\* 8008, 800F, E000, E095, F000, F0FF
UnknownOps ==
    {Opc(0, 0, 0, 0), Opc(0, 1, 14, 0), Opc(0, 0, 14, 1), Opc(5, 0, 0, 1), Opc(9, 0, 0, 1),
     Opc(8, 0, 0, 8), Opc(8, 0, 0, 15), Opc(14, 0, 0, 0), Opc(14, 0, 9, 5),
     Opc(15, 0, 0, 0), Opc(15, 0, 15, 15)}

\* Vx := a, then 5XY1 or 9XY1 on registers that differ or agree
UnknownPrograms ==
    {Image(<<op>>) : op \in UnknownOps}
    \cup {Image(<<SetReg(0, a), Opc(k, 0, 10, 1)>>) : a \in {0, 1}, k \in {5, 9}}

\* CXNN
RandPrograms == {Image(<<Opc(12, x, v \div 16, v % 16)>>) : x \in Regs, v \in {0, 60, 255}}

\* 00E0, ANNN
PlainPrograms ==
    {Image(<<Opc(0, 0, 14, 0)>>)} \cup {Image(<<WithNNN(10, nnn)>>) : nnn \in {0, 2748, 4095}}

\* the addresses jumps aim at: 0, the start, the last byte of the RAM and the first
\* byte behind it, 0xABC, 0xFFF
Targets == {0, PROGRAM_START, MEMORY_SIZE - 1, MEMORY_SIZE, 2748, 4095}

\* 1NNN on the state Cpu::new leaves, after a register load, and inside a call;
\* V0 := a then BNNN; 2NNN
JumpPrograms ==
    {Image(<<WithNNN(1, nnn)>>) : nnn \in Targets}
    \cup {Image(<<SetReg(10, 60), WithNNN(1, nnn)>>) : nnn \in Targets}
    \cup {Image(<<WithNNN(2, PROGRAM_START + 4), Return, WithNNN(1, nnn)>>) :
             nnn \in Targets \ {PROGRAM_START}}
    \cup {Image(<<SetReg(0, a), WithNNN(11, nnn)>>) : a \in Vals, nnn \in Targets}
    \cup {Image(<<WithNNN(2, nnn)>>) : nnn \in Targets \ {PROGRAM_START}}

\* DXYN, EX9E, EXA1, FX07, FX15, FX18, FX1E, FX29, FX33, FX55, FX65
PeripheralOps ==
    {Opc(13, 0, 10, 1), Opc(14, 0, 9, 14), Opc(14, 0, 10, 1)}
    \cup {Opc(15, 0, nn \div 16, nn % 16) : nn \in {7, 21, 24, 30, 41, 51, 85, 101}}

PeripheralPrograms == {Image(<<op>>) : op \in PeripheralOps}

\* a buffer of n bytes: 1200, then zeros, then one 1
Filler(n) == [i \in 1..n |-> IF i = 1 THEN 18 ELSE IF i = n THEN 1 ELSE 0]

\* the longest buffer that fits the RAM behind PROGRAM_START, and one byte more
LongPrograms ==
    {Filler(n) : n \in {MEMORY_SIZE - PROGRAM_START, MEMORY_SIZE - PROGRAM_START + 1}}

Programs ==
    AluPrograms \cup SkipPrograms \cup CallPrograms \cup UnaryPrograms \cup UnknownPrograms
    \cup RandPrograms \cup PlainPrograms \cup JumpPrograms \cup PeripheralPrograms
    \cup LongPrograms

(***************************************************************************)
(* Spec: the driver builds a Chip8, loads one program and clocks it.       *)
(***************************************************************************)
LoadProgram ==
    /\ last.kind = "new"
    /\ \E buffer \in Programs : Load(buffer)

Next == LoadProgram \/ Clock

Spec == Init /\ [][Next]_vars

(***************************************************************************)
(* What the history says of the most recent step.                          *)
(***************************************************************************)
\* the most recent driver call was a clock that fetched an opcode
Stepped == last.kind = "clock" /\ InBounds(last.pc) /\ InBounds(last.pc + 1)

SteppedOn(opcode) == Stepped /\ last.opcode = opcode

LastX == FieldX(last.opcode)

LastY == FieldY(last.opcode)

LastNN == FieldNN(last.opcode)

\* the step fetched 8XYN with the given N
SteppedOn8(n) == Stepped /\ OpClass(last.opcode) = 8 /\ FieldN(last.opcode) = n

\* the step fetched an opcode of the given class
SteppedOnClass(k) == Stepped /\ OpClass(last.opcode) = k

\* the step before the most recent one was a clock that fetched 6XNN
PrevSet == prev.kind = "clock" /\ OpClass(prev.opcode) = 6

Completed == panic = "none"

\* the step left registers, I, the stack and memory as it found them
FrameKept == vx = last.vx /\ idx = last.idx /\ stack = last.stack /\ last.memSame

(***************************************************************************)
(* C1..C5: the flag-setting arithmetic of class 8.                         *)
(***************************************************************************)
\* C1: a step on 8XY5 with X # F and X # Y, from Vx = a and Vy = b, ends with
\* Vx = (a - b) mod 256 and VF = 1 if a >= b, VF = 0 otherwise.
C1_Sub8XY5 ==
    (SteppedOn8(5) /\ LastX # 15 /\ LastX # LastY) =>
        LET a == Reg(last.vx, LastX)
            b == Reg(last.vx, LastY)
        IN  /\ Completed
            /\ Reg(vx, LastX) = (a - b) % 256
            /\ Reg(vx, 15) = IF a >= b THEN 1 ELSE 0

\* C2: a step on 8XY4 with X # F, from Vx = a and Vy = b, ends with
\* Vx = (a + b) mod 256 and VF = 1 if a + b > 255, VF = 0 otherwise.
C2_Add8XY4 ==
    (SteppedOn8(4) /\ LastX # 15) =>
        LET a == Reg(last.vx, LastX)
            b == Reg(last.vx, LastY)
        IN  /\ Completed
            /\ Reg(vx, LastX) = (a + b) % 256
            /\ Reg(vx, 15) = IF a + b > 255 THEN 1 ELSE 0

\* a step on 8XY4 whose sum carried: 179 + 255 = 434 leaves 178 and VF = 1
C2_Witness ==
    /\ SteppedOn(Opc(8, 0, 10, 4))
    /\ Reg(last.vx, 0) = 179 /\ Reg(last.vx, 10) = 255
    /\ Completed /\ Reg(vx, 0) = 178 /\ Reg(vx, 15) = 1

\* C3: a step on 8XY7 with X # F and X # Y, from Vx = a and Vy = b, ends with
\* Vx = (b - a) mod 256 and VF = 1 if b >= a, VF = 0 otherwise.
C3_SubN8XY7 ==
    (SteppedOn8(7) /\ LastX # 15 /\ LastX # LastY) =>
        LET a == Reg(last.vx, LastX)
            b == Reg(last.vx, LastY)
        IN  /\ Completed
            /\ Reg(vx, LastX) = (b - a) % 256
            /\ Reg(vx, 15) = IF b >= a THEN 1 ELSE 0

\* C4: a step on 8XYE with X # F, from Vx = a, ends with VF = bit 7 of a and
\* Vx = (2 * a) mod 256.
C4_Shl8XYE ==
    (SteppedOn8(14) /\ LastX # 15) =>
        LET a == Reg(last.vx, LastX)
        IN  /\ Completed
            /\ Reg(vx, 15) = a \div 128
            /\ Reg(vx, LastX) = (2 * a) % 256

\* C5: a step on 8XY6 with X # F, from Vx = a, ends with VF = bit 0 of a and
\* Vx = floor(a / 2).
C5_Shr8XY6 ==
    (SteppedOn8(6) /\ LastX # 15) =>
        LET a == Reg(last.vx, LastX)
        IN  /\ Completed
            /\ Reg(vx, 15) = a % 2
            /\ Reg(vx, LastX) = a \div 2

\* a step on 8XY6 from Vx = 0b10110011 that left VF = 1 and Vx = 0b01011001
C5_Witness ==
    /\ SteppedOn8(6) /\ LastX # 15
    /\ Reg(last.vx, LastX) = 179
    /\ Completed /\ Reg(vx, 15) = 1 /\ Reg(vx, LastX) = 89

(***************************************************************************)
(* C6, C7: the skips.                                                      *)
(***************************************************************************)
\* C6: a step on 5XY0 at PC = p ends with PC = p + 4 if Vx = Vy and PC = p + 2
\* otherwise; a step on 9XY0 ends with PC = p + 4 if Vx # Vy and PC = p + 2
\* otherwise; neither changes a register.
C6_SkipRegs ==
    /\ (SteppedOnClass(5) /\ FieldN(last.opcode) = 0) =>
          /\ Completed
          /\ pc = last.pc + (IF Reg(last.vx, LastX) = Reg(last.vx, LastY) THEN 4 ELSE 2)
          /\ vx = last.vx
    /\ (SteppedOnClass(9) /\ FieldN(last.opcode) = 0) =>
          /\ Completed
          /\ pc = last.pc + (IF Reg(last.vx, LastX) # Reg(last.vx, LastY) THEN 4 ELSE 2)
          /\ vx = last.vx

\* C7: 6Xvv leaves Vx = vv; a step on 3XNN at PC = p then ends with PC = p + 4
\* if Vx = NN and PC = p + 2 otherwise, a step on 4XNN with PC = p + 4 if
\* Vx # NN and PC = p + 2 otherwise; directly after 6Xvv that is vv = NN and
\* vv # NN.  The skips leave registers, I, the stack and memory as they were.
C7_SkipImmediate ==
    /\ SteppedOnClass(6) => (Completed /\ Reg(vx, LastX) = LastNN /\ pc = last.pc + 2)
    /\ SteppedOnClass(3) =>
          /\ Completed
          /\ pc = last.pc + (IF Reg(last.vx, LastX) = LastNN THEN 4 ELSE 2)
          /\ FrameKept
          /\ (PrevSet /\ FieldX(prev.opcode) = LastX) =>
                pc = last.pc + (IF FieldNN(prev.opcode) = LastNN THEN 4 ELSE 2)
    /\ SteppedOnClass(4) =>
          /\ Completed
          /\ pc = last.pc + (IF Reg(last.vx, LastX) # LastNN THEN 4 ELSE 2)
          /\ FrameKept
          /\ (PrevSet /\ FieldX(prev.opcode) = LastX) =>
                pc = last.pc + (IF FieldNN(prev.opcode) # LastNN THEN 4 ELSE 2)

\* 6A3C directly followed by 3A3C, which skipped
C7_Witness ==
    /\ prev.kind = "clock" /\ prev.opcode = Opc(6, 10, 3, 12)
    /\ SteppedOn(Opc(3, 10, 3, 12))
    /\ Completed /\ pc = last.pc + 4

(***************************************************************************)
(* C8..C10: calls and returns.                                             *)
(***************************************************************************)
\* C8: calls and returns are LIFO: a call at PC = p pushes p + 2 and jumps; a
\* return ends at the site of the newest call not yet returned from plus 2, with
\* the stack as deep as before that call, so k nested calls at p1..pk are undone
\* by k returns to pk + 2, ..., p1 + 2; a return directly after a call at p
\* ends with PC = p + 2.
C8_CallReturnLifo ==
    /\ Len(calls) = Len(stack)
    /\ SteppedOnClass(2) =>
          /\ Completed
          /\ stack = Append(last.stack, last.pc + 2)
          /\ pc = FieldNNN(last.opcode)
    /\ (SteppedOn(Return) /\ last.stack # <<>>) =>
          /\ Completed
          /\ last.calls # <<>>
          /\ pc = last.calls[Len(last.calls)].site + 2
          /\ Len(stack) = last.calls[Len(last.calls)].depth
          /\ stack = SubSeq(last.stack, 1, Len(stack))
          /\ (prev.kind = "clock" /\ OpClass(prev.opcode) = 2) => pc = prev.pc + 2

\* the last of the 16 returns that undo 16 nested calls from 16 sites: the stack
\* is empty again and PC is behind the first call
C8_Witness ==
    /\ OpClass(FetchOpcode(mem, PROGRAM_START + 4 * (STACK_CAPACITY - 1))) = 2
    /\ FetchOpcode(mem, PROGRAM_START + 4 * STACK_CAPACITY) = Return
    /\ SteppedOn(Return) /\ Len(last.stack) = 1
    /\ Completed /\ stack = <<>> /\ pc = PROGRAM_START + 2

\* C9: the call stack never holds more than 16 return addresses: a call made
\* with 16 entries on the stack ends in a fatal error instead of pushing.
C9_StackCapacity ==
    /\ Len(stack) <= STACK_CAPACITY
    /\ (SteppedOnClass(2) /\ Len(last.stack) = STACK_CAPACITY) =>
          (~Completed /\ stack = last.stack /\ pc = last.pc)

\* C10: a step on 00EE with an empty call stack ends in a panic and leaves PC,
\* the registers, I and the stack as they were.
C10_ReturnOnEmptyStack ==
    (SteppedOn(Return) /\ last.stack = <<>>) =>
        /\ panic = "unwrap_none"
        /\ pc = last.pc
        /\ vx = last.vx
        /\ idx = last.idx
        /\ stack = last.stack

\* 00EE as the first instruction executed after Cpu::new
C10_Witness ==
    /\ SteppedOn(Return) /\ last.stack = <<>>
    /\ prev.kind = "load" /\ last.pc = PROGRAM_START
    /\ panic = "unwrap_none"

(***************************************************************************)
(* C11, C12: decoding, and the random opcode.                              *)
(***************************************************************************)
\* the rows of the instruction table: 00E0, 00EE, 1NNN .. 4XNN, 5XY0, 6XNN, 7XNN,
\* 8XY0..8XY7, 8XYE, 9XY0, ANNN .. DXYN, EX9E, EXA1, FX07 .. FX65
InTable(opcode) ==
    LET k == OpClass(opcode)
        nn == FieldNN(opcode)
        n == FieldN(opcode)
    IN  \/ opcode \in {224, 238}
        \/ k \in {1, 2, 3, 4, 6, 7, 10, 11, 12, 13}
        \/ k \in {5, 9} /\ n = 0
        \/ k = 8 /\ n \in (0..7) \cup {14}
        \/ k = 14 /\ nn \in {158, 161}
        \/ k = 15 /\ nn \in {7, 21, 24, 30, 41, 51, 85, 101}

\* C11: a step that fetches a word matching no row of the instruction table
\* ends in the fatal decode error and leaves PC, the registers, I, the stack
\* and memory as they were.
C11_UnknownOpcodeIsFatal ==
    (Stepped /\ ~InTable(last.opcode)) =>
        /\ panic = "unrecognized"
        /\ pc = last.pc
        /\ FrameKept

\* C12: a step on CXNN completes with PC advanced by 2 and with no bit of Vx
\* set outside NN; with NN = 0 it ends with Vx = 0.
C12_RandMasked ==
    SteppedOnClass(12) =>
        /\ Completed
        /\ pc = last.pc + 2
        /\ BitAnd(Reg(vx, LastX), LastNN) = Reg(vx, LastX)
        /\ (LastNN = 0 => Reg(vx, LastX) = 0)

(***************************************************************************)
(* C13: loading a program.                                                 *)
(***************************************************************************)
\* C13: Chip8::load of a buffer of N bytes with 0x200 + N <= 0x1000 completes,
\* leaves byte i of the buffer at 0x200 + i for every i < N, and changes no
\* byte below 0x200 or from 0x200 + N on.
C13_LoadPlacesProgram ==
    (last.kind = "load" /\ PROGRAM_START + Len(last.buffer) <= 4096) =>
        /\ Completed
        /\ \A i \in 0..(Len(last.buffer) - 1) :
              ReadByte(mem, PROGRAM_START + i) = last.buffer[i + 1]
        /\ \A a \in last.changed :
              PROGRAM_START <= a /\ a < PROGRAM_START + Len(last.buffer)

(***************************************************************************)
(* C14: the range of PC.                                                   *)
(***************************************************************************)
\* C14: in every state reached by completed steps, PC is at most 0xFFF and is
\* an index of the RAM array.
C14_PcInMemory == Completed => (pc <= 4095 /\ InBounds(pc))

(***************************************************************************)
(* C15, C16: traps and the flag register.                                  *)
(***************************************************************************)
\* C15: a step on 7XNN, 8XY4, 8XY5, 8XY6, 8XY7 or 8XYE completes, whatever the
\* registers hold.
C15_ArithmeticNeverTraps ==
    (SteppedOnClass(7) \/ \E n \in {4, 5, 6, 7, 14} : SteppedOn8(n)) => Completed

\* the flag the instruction table defines for 8XYN from Vx = a and Vy = b
TableFlag(n, a, b) ==
    CASE n = 4 -> IF a + b > 255 THEN 1 ELSE 0
      [] n = 5 -> IF a >= b THEN 1 ELSE 0
      [] n = 6 -> a % 2
      [] n = 7 -> IF b >= a THEN 1 ELSE 0
      [] n = 14 -> a \div 128

\* C16: after a completed step on 8XY4, 8XY5, 8XY6, 8XY7 or 8XYE, for every X
\* including X = F, VF holds the flag the table defines for the opcode.
C16_FlagInVF ==
    \A n \in {4, 5, 6, 7, 14} :
        (SteppedOn8(n) /\ Completed) =>
            Reg(vx, 15) = TableFlag(n, Reg(last.vx, LastX), Reg(last.vx, LastY))

(***************************************************************************)
(* C17: the PC update of the opcodes that do not set PC directly.          *)
(***************************************************************************)
\* 00E0, 6XNN, 7XNN, 8XY0..8XY7, 8XYE, ANNN, CXNN
IsPlainOp(opcode) ==
    \/ opcode = 224
    \/ OpClass(opcode) \in {6, 7, 10, 12}
    \/ OpClass(opcode) = 8 /\ FieldN(opcode) \in (0..7) \cup {14}

\* 3XNN, 4XNN, 5XY0, 9XY0
IsSkipOp(opcode) ==
    \/ OpClass(opcode) \in {3, 4}
    \/ OpClass(opcode) \in {5, 9} /\ FieldN(opcode) = 0

\* C17: a completed step from PC = p on 00E0, 6XNN, 7XNN, 8XY0..8XY7, 8XYE, ANNN
\* or CXNN ends with PC = p + 2; a completed step on 3XNN, 4XNN, 5XY0 or 9XY0
\* ends with PC = p + 2 or PC = p + 4.
C17_PcAdvance ==
    (Stepped /\ Completed) =>
        /\ (IsPlainOp(last.opcode) => pc = last.pc + 2)
        /\ (IsSkipOp(last.opcode) => pc \in {last.pc + 2, last.pc + 4})

\* AABC as the first instruction: I = 0xABC and PC two bytes on
C17_Witness ==
    /\ SteppedOn(WithNNN(10, 2748)) /\ Completed
    /\ last.pc = PROGRAM_START
    /\ pc = PROGRAM_START + 2
    /\ idx = 2748

(***************************************************************************)
(* C18: the display, keypad, timer and memory opcodes.                     *)
(***************************************************************************)
\* DXYN, EX9E, EXA1, FX07, FX15, FX18, FX1E, FX29, FX33, FX55, FX65
IsPeripheralOp(opcode) ==
    \/ OpClass(opcode) = 13
    \/ OpClass(opcode) = 14 /\ FieldNN(opcode) \in {158, 161}
    \/ OpClass(opcode) = 15 /\ FieldNN(opcode) \in {7, 21, 24, 30, 41, 51, 85, 101}

\* C18: from a state with at most STACK_CAPACITY stack entries and I inside
\* memory, a step on DXYN, EX9E, EXA1, FX07, FX15, FX18, FX1E, FX29, FX33, FX55
\* or FX65 completes with PC = p + 2 (or p + 4 for the two skips); FX1E ends
\* with I = I + Vx.
C18_TableOpsComplete ==
    (/\ Stepped
     /\ IsPeripheralOp(last.opcode)
     /\ Len(last.stack) <= STACK_CAPACITY
     /\ InBounds(last.idx)) =>
        /\ Completed
        /\ IF OpClass(last.opcode) = 14 THEN pc \in {last.pc + 2, last.pc + 4}
           ELSE pc = last.pc + 2
        /\ (OpClass(last.opcode) = 15 /\ LastNN = 30) =>
              idx = last.idx + Reg(last.vx, LastX)

(***************************************************************************)
(* C19: the jump.                                                          *)
(***************************************************************************)
\* C19: a step on 1NNN completes with PC = NNN and leaves the registers, I,
\* the call stack and memory as they were.
C19_JumpSetsPc ==
    SteppedOnClass(1) =>
        /\ Completed
        /\ pc = FieldNNN(last.opcode)
        /\ FrameKept

\* 1ABC executed inside a call: PC = 0xABC and the return address still stacked
C19_Witness ==
    /\ SteppedOn(WithNNN(1, 2748)) /\ Completed
    /\ pc = 2748
    /\ last.stack = <<PROGRAM_START + 2>>
    /\ stack = last.stack

(***************************************************************************)
(* C20: fetching outside memory.                                           *)
(***************************************************************************)
\* C20: a step whose fetch address PC or PC + 1 is no index of the RAM ends in
\* the out-of-bounds panic with PC, the registers, I, the call stack and memory
\* as they were before the step, and no further step is possible.
C20_FetchOutOfBounds ==
    (last.kind = "clock" /\ last.pc + 1 >= MEMORY_SIZE) =>
        /\ panic = "index_out_of_bounds"
        /\ pc = last.pc
        /\ FrameKept
        /\ ~ENABLED Clock

\* a jump to the last byte of the RAM, then the fetch whose second read is
\* outside
C20_Witness ==
    /\ last.kind = "clock" /\ last.pc = MEMORY_SIZE - 1
    /\ prev.kind = "clock" /\ OpClass(prev.opcode) = 1
    /\ panic = "index_out_of_bounds"
    /\ pc = MEMORY_SIZE - 1

====
